---- MODULE Spec2Model ----
(***************************************************************************)
(* Model of the crypto-trader strategy loop (src/main.py):                 *)
(*   AlpacaAPI.get_historical_data, TradingSignals.calculate,              *)
(*   OrderExecution.place_order, AlpacaTradingBot.run / process_symbol.    *)
(*                                                                         *)
(* Windows, series lengths and prices are scaled down (20/50/100 in the    *)
(* source); the retry count keeps its source value.                        *)
(***************************************************************************)
EXTENDS Integers, Sequences, FiniteSets, TLC

\* ---------------------------------------------------------------- bounds
ShortWindow == 2   \* short_window (20 in the source), scaled
LongWindow == 3    \* long_window (50 in the source), scaled
Limit == 4         \* limit of get_historical_data (100 in the source), scaled
MaxLen == 5        \* longest series the broker returns
CalcMaxLen == 6    \* longest frame handed to a stand-alone calculate call
MaxPrice == 2      \* close prices range over 1..MaxPrice
MaxCycle == 2      \* the cycle counter stops counting here
MaxQty == 2        \* stand-alone place_order calls ask for 1..MaxQty units

\* ------------------------------------------------------ program constants
Retries == 3       \* retries=3, default of get_historical_data
OrderQty == 1      \* qty=1 in process_symbol
DeferSeconds == 300  \* asyncio.sleep(300) of process_symbol
CheckInterval == 900  \* check_interval=900 of run()
ErrorSleepSeconds == 300  \* asyncio.sleep(300) of the loop's except clause
SecondsPerDay == 86400  \* range of timedelta.seconds

\* symbols=["BTC/USD", "ETH/USD"]
SymbolList == <<"BTC/USD", "ETH/USD">>

Symbols == {SymbolList[i] : i \in DOMAIN SymbolList}
\* A DataFrame argument: None, or a frame with its rows
None == [absent |-> TRUE, rows |-> <<>>]

Frame(rows) == [absent |-> FALSE, rows |-> rows]

\* ------------------------------------------------------------ price series
Prices == 1..MaxPrice

ClosesUpTo(n) == UNION {[1..k -> Prices] : k \in 0..n}

\* The frame the broker returns: one row per bar, indexed by timestamp,
\* ascending.
BarsOf(closes) == [i \in 1..Len(closes) |-> [t |-> i, close |-> closes[i]]]

BrokerBars == {BarsOf(c) : c \in ClosesUpTo(MaxLen)}

\* bars.tail(limit)
TailRows(bars, n) ==
    IF Len(bars) <= n THEN bars
    ELSE [i \in 1..n |-> bars[Len(bars) - n + i]]

RECURSIVE InsertByIndex(_, _)
InsertByIndex(row, sorted) ==
    IF sorted = <<>> THEN <<row>>
    ELSE IF row.t < Head(sorted).t THEN <<row>> \o sorted
    ELSE <<Head(sorted)>> \o InsertByIndex(row, Tail(sorted))

RECURSIVE SortIndex(_)
\* DataFrame.sort_index(): rows ascending by their timestamp index
SortIndex(bars) ==
    IF bars = <<>> THEN <<>>
    ELSE InsertByIndex(Head(bars), SortIndex(Tail(bars)))

\* data['close']
CloseColumn(data) == [i \in 1..Len(data) |-> data[i].close]

\* ------------------------------------------------- TradingSignals.calculate
RECURSIVE SumRange(_, _, _)
SumRange(xs, lo, hi) ==
    IF lo > hi THEN 0 ELSE xs[lo] + SumRange(xs, lo + 1, hi)

NaN == [def |-> FALSE, sum |-> 0, n |-> 1]

\* Series.rolling(window=w).mean() at row i (1-based): NaN until the window
\* is full, else the mean sum/n kept as an exact fraction.
RollingMean(xs, w, i) ==
    IF i < w THEN NaN
    ELSE [def |-> TRUE, sum |-> SumRange(xs, i - w + 1, i), n |-> w]

\* variant: the comparison taken as >=
GtOrEqual(a, b) == a.def /\ b.def /\ a.sum * b.n >= b.sum * a.n

\* a > b on floats: FALSE whenever either side is NaN
Gt(a, b) == a.def /\ b.def /\ a.sum * b.n > b.sum * a.n

\* What a calculate call gives back
Signals(buy, sell) == [ret |-> "signals", buy |-> buy, sell |-> sell]

NoResult(why) == [ret |-> why, buy |-> FALSE, sell |-> FALSE]

\* variant: sell reported on any change of the comparison
CrossSignalsAnyChange(close, short_window, long_window) ==
    LET n == Len(close)
        current_cross == Gt(RollingMean(close, short_window, n),
                            RollingMean(close, long_window, n))
        prev_cross == Gt(RollingMean(close, short_window, n - 1),
                         RollingMean(close, long_window, n - 1))
        buy_signal == ~prev_cross /\ current_cross
        sell_signal == prev_cross # current_cross
    IN  Signals(buy_signal, sell_signal)

\* The two comparisons of calculate and the signals made from them; close
\* has at least two rows.
CrossSignals(close, short_window, long_window) ==
    LET n == Len(close)
        current_cross == Gt(RollingMean(close, short_window, n),
                            RollingMean(close, long_window, n))
        prev_cross == Gt(RollingMean(close, short_window, n - 1),
                         RollingMean(close, long_window, n - 1))
        buy_signal == ~prev_cross /\ current_cross
        sell_signal == prev_cross /\ ~current_cross
    IN  Signals(buy_signal, sell_signal)

\* variant: the insufficient-data check left out
CalculateNoGuard(data, short_window, long_window) ==
    IF Len(data.rows) < 2 THEN NoResult("IndexError")
    ELSE CrossSignals(CloseColumn(data.rows), short_window, long_window)

\* calculate(data): the pair (buy_signal, sell_signal), or IndexError when
\* iloc[-2] is out of bounds.
Calculate(data, short_window, long_window) ==
    IF data.absent \/ Len(data.rows) < long_window THEN Signals(FALSE, FALSE)
    ELSE IF Len(data.rows) < 2 THEN NoResult("IndexError")
    ELSE CrossSignals(CloseColumn(data.rows), short_window, long_window)

\* ------------------------------------------- AlpacaAPI.get_historical_data
\* variant: an empty result is retried like an APIError
OnEmptyResultRetry(attempt) ==
    IF attempt + 1 < Retries THEN "retry" ELSE "none"

\* if bars.empty: return None, whatever the attempt count
OnEmptyResult(attempt) == "none"

\* variant: the retry test off by one
OnFetchErrorOffByOne(kind, attempt) ==
    IF kind = "api_error"
    THEN IF attempt + 1 <= Retries THEN "retry" ELSE "none"
    ELSE "none"

\* What one failed request leads to: "retry" (sleep, then another request)
\* or "none" (return None).  attempt is the count before this failure.
OnFetchError(kind, attempt) ==
    IF kind = "api_error"
    THEN IF attempt + 1 < Retries THEN "retry" ELSE "none"
    ELSE "none"

\* --------------------------------------------- OrderExecution.place_order
\* variant: only APIError is caught
PlaceOrderExceptApiOnly(kind) ==
    IF kind = "api_error" THEN "none" ELSE "raise"

\* The two except clauses of place_order: what the call does with an error
\* raised by get_latest_trade or submit_order.
PlaceOrderExcept(kind) ==
    IF kind = "api_error" THEN "none" ELSE "none"

\* ------------------------------------------ AlpacaTradingBot.process_symbol
\* except Exception at the end of process_symbol: the task's final state
\* when an exception reaches it.
ProcessSymbolExcept == "done"

\* variant: no return after the deferral, control falls into calculate
AfterDeferFallsThrough(r) == Calculate(None, ShortWindow, LongWindow)

\* return after asyncio.sleep(300): the task ends with the signals as they
\* are (none computed)
AfterDefer(r) == r

\* variant: a failed price read is ignored and the order goes out
AfterLatestTradeIgnored(out) == "submit"

\* the try block of place_order: submit_order follows get_latest_trade only
\* when that call returned; an exception leaves the block
AfterLatestTrade(out) == IF out = "ok" THEN "submit" ELSE "except"

\* variant: the sides exchanged
SideForSwapped(r) ==
    IF r.buy THEN "sell"
    ELSE IF r.sell THEN "buy"
    ELSE "none"

\* if buy_signal / elif sell_signal / else: the side of the order placed
SideFor(r) ==
    IF r.buy THEN "buy"
    ELSE IF r.sell THEN "sell"
    ELSE "none"

\* ------------------------------------------------------ AlpacaTradingBot.run
\* variant: the task list is handed to gather twice
TasksForTwice(s) == 2 * Cardinality({i \in DOMAIN SymbolList : SymbolList[i] = s})

\* [self.process_symbol(symbol) for symbol in self.symbols]: the number of
\* tasks created for s in one cycle
TasksFor(s) == Cardinality({i \in DOMAIN SymbolList : SymbolList[i] = s})

\* variant: the wait ends with the first finished task
GatherFirstCompleted(t) == \E s \in Symbols : t[s].pc = "done"

\* asyncio.gather(*tasks) returns normally once every task has finished
GatherComplete(t) == \A s \in Symbols : t[s].pc = "done"

\* A rational number num / den, den > 0
Frac(num, den) == [num |-> num, den |-> den]

FracEq(a, b) == a.num * b.den = b.num * a.den

\* fee_rate / 100
Percent(fee_rate) == Frac(fee_rate.num, fee_rate.den * 100)

\* variant: the fee rate is applied as a fraction, not as a percentage
EstimatedFeeNoPercent(qty, current_price, fee_rate) ==
    Frac(qty * current_price * fee_rate.num, fee_rate.den)

\* estimated_fee = qty * current_price * (self.fee_rate / 100)
EstimatedFee(qty, current_price, fee_rate) ==
    Frac(qty * current_price * Percent(fee_rate).num, Percent(fee_rate).den)

\* no order handed to the broker
NoOrder ==
    [symbol |-> "none", qty |-> 0, side |-> "none", type |-> "none",
     time_in_force |-> "none"]

\* the keyword arguments of submit_order; the fee is not among them
OrderRequest(symbol, qty, side, fee) ==
    [symbol |-> symbol, qty |-> qty, side |-> side,
     type |-> "market", time_in_force |-> "gtc"]

\* fee rates, in percent, of the stand-alone place_order calls; 25/100 is
\* the default of OrderExecution
FeeRates == {Frac(0, 1), Frac(25, 100), Frac(1, 1), Frac(150, 1)}

\* prices get_latest_trade may report
TradePrices == {1, 100, 250}

\* (clock.next_open - clock.timestamp).seconds for a wait of d >= 0 seconds:
\* the seconds field of the timedelta, its days left out
TimedeltaSeconds(d) == d % SecondsPerDay

Min(a, b) == IF a <= b THEN a ELSE b

\* min(check_interval, (clock.next_open - clock.timestamp).seconds)
ClosedSleep(check_interval, d) == Min(check_interval, TimedeltaSeconds(d))

\* waits until the next open the clock may report, in seconds
TimesToOpen == {0, 60, 900, 3600, 86399, 86400, 90000, 172860}

\* variant: the loop is left on a loop-level error
OnLoopErrorBreak == "Exited"

\* except Exception in run(): where the loop goes after a loop-level error
OnLoopError == "ErrorSleep"

\* ------------------------------------------------------------------ state
VARIABLES
    pc,         \* position of run(): CheckClock, SleepUntilOpen, Gather,
                \* SleepInterval, ErrorSleep, Exited
    running,    \* the per-symbol task holding the event-loop thread, or "none"
    stop,       \* external stop signal: none, pending, interrupted, cancelled
    task,       \* per symbol: [pc, attempt, side, wait, n]: position,
                \* attempt counter, order side, seconds of the deferral
                \* asked for, tasks created for the symbol this cycle
    reqs,       \* per symbol: get_crypto_bars requests of the current call
    fails,      \* per symbol: APIErrors of the current call
    empties,    \* per symbol: empty results of the current call
    got,        \* per symbol: result of get_historical_data: na, data, none
    xing,       \* per symbol: what the last two samples of the data show
    sig,        \* per symbol: result of calculate
    calls,      \* per symbol: broker calls of place_order, in order
    placeRet,   \* per symbol: how place_order ended: na, order, none, raise
    brokerErr,  \* per symbol: a broker call of this task raised
    cycle,      \* cycles launched so far, counted up to MaxCycle
    lastClock,  \* result of the latest get_clock: na, open, closed, error
    loopErr,    \* origin of the latest loop-level error: none, clock, task
    toOpen,     \* clock.next_open - clock.timestamp of a closed clock, in
                \* seconds; 0 when no closed-market sleep is under way
    sleepFor,   \* seconds of the asyncio.sleep the loop is in; 0 when in none
    calcIn,     \* argument of a stand-alone calculate call
    calcOut,    \* its result, "unset" before the call
    po          \* a stand-alone place_order call

vars == <<pc, running, stop, task, reqs, fails, empties, got, xing, sig, calls,
          placeRet, brokerErr, cycle, lastClock, loopErr, toOpen, sleepFor,
          calcIn, calcOut, po>>

runVars == <<pc, running, stop, task, reqs, fails, empties, got, xing, sig, calls,
             placeRet, brokerErr, cycle, lastClock, loopErr, toOpen, sleepFor>>

calcVars == <<calcIn, calcOut>>

sleepVars == <<toOpen, sleepFor>>

\* no stand-alone place_order call
PoIdle ==
    [pc |-> "idle", symbol |-> "none", qty |-> 0, side |-> "none",
     fee_rate |-> Frac(0, 1), price |-> 0,
     fee |-> Frac(0, 1), order |-> NoOrder, ret |-> "na"]

TaskIdle == [pc |-> "idle", attempt |-> 0, side |-> "none", wait |-> 0, n |-> 0]

FreshObs(v) == [s \in Symbols |-> v]

InitRun ==
    /\ pc = "CheckClock"
    /\ running = "none"
    /\ stop = "none"
    /\ task = [s \in Symbols |-> TaskIdle]
    /\ reqs = FreshObs(0)
    /\ fails = FreshObs(0)
    /\ empties = FreshObs(0)
    /\ got = FreshObs("na")
    /\ xing = FreshObs("na")
    /\ sig = FreshObs(NoResult("na"))
    /\ calls = FreshObs(<<>>)
    /\ placeRet = FreshObs("na")
    /\ brokerErr = FreshObs(FALSE)
    /\ cycle = 0
    /\ lastClock = "na"
    /\ loopErr = "none"
    /\ toOpen = 0
    /\ sleepFor = 0

Init ==
    /\ InitRun
    /\ calcIn = None
    /\ calcOut = NoResult("unset")
    /\ po = PoIdle

\* What the last two samples of a close column show, from the trailing
\* means as exact fractions: undef (a mean is missing at one of the two
\* samples), up, down or flat.
Crossing(close) ==
    LET n == Len(close)
        sS(i) == SumRange(close, i - ShortWindow + 1, i)
        lS(i) == SumRange(close, i - LongWindow + 1, i)
        above(i) == sS(i) * LongWindow > lS(i) * ShortWindow
    IN  IF n - 1 < LongWindow \/ n - 1 < ShortWindow THEN "undef"
        ELSE IF ~above(n - 1) /\ above(n) THEN "up"
        ELSE IF above(n - 1) /\ ~above(n) THEN "down"
        ELSE "flat"

\* ---------------------------------------------------------------- run()
\* tasks = [self.process_symbol(symbol) ...]; await asyncio.gather(*tasks):
\* one task per symbol is created and the loop suspends.
LaunchCycle ==
    /\ task' = [s \in Symbols |->
                   [pc |-> "ready", attempt |-> 0, side |-> "none", wait |-> 0,
                    n |-> TasksFor(s)]]
    /\ reqs' = FreshObs(0)
    /\ fails' = FreshObs(0)
    /\ empties' = FreshObs(0)
    /\ got' = FreshObs("na")
    /\ xing' = FreshObs("na")
    /\ sig' = FreshObs(NoResult("na"))
    /\ calls' = FreshObs(<<>>)
    /\ placeRet' = FreshObs("na")
    /\ brokerErr' = FreshObs(FALSE)
    /\ cycle' = IF cycle < MaxCycle THEN cycle + 1 ELSE cycle
    /\ pc' = "Gather"

taskObs == <<task, reqs, fails, empties, got, xing, sig, calls, placeRet, brokerErr,
             cycle>>

\* get_clock() and the branch on clock.is_open, up to the next await
CheckClock ==
    /\ pc = "CheckClock"
    /\ \E r \in {"open", "closed", "error"} :
         /\ lastClock' = r
         /\ CASE r = "open" -> LaunchCycle /\ UNCHANGED <<loopErr, sleepVars>>
              [] r = "closed" ->
                    /\ \E d \in TimesToOpen :
                          /\ toOpen' = d
                          /\ sleepFor' = ClosedSleep(CheckInterval, d)
                    /\ pc' = "SleepUntilOpen"
                    /\ UNCHANGED <<taskObs, loopErr>>
              [] r = "error" -> /\ pc' = OnLoopError
                                /\ loopErr' = "clock"
                                /\ sleepFor' = ErrorSleepSeconds
                                /\ UNCHANGED <<taskObs, toOpen>>
    /\ UNCHANGED <<running, stop, calcVars, po>>

\* the sleep of the closed branch ends; control falls through to the
\* task list and gather of the same iteration
SleepUntilOpenDone ==
    /\ pc = "SleepUntilOpen"
    /\ stop = "none"
    /\ LaunchCycle
    /\ toOpen' = 0
    /\ sleepFor' = 0
    /\ UNCHANGED <<running, stop, lastClock, loopErr, calcVars, po>>

\* gather returns: normally once all tasks are done, or with the first
\* exception a task let escape
GatherReturns ==
    /\ pc = "Gather"
    /\ running = "none"
    /\ stop = "none"
    /\ IF \E s \in Symbols : task[s].pc = "raised"
       THEN /\ pc' = OnLoopError
            /\ loopErr' = "task"
            /\ sleepFor' = ErrorSleepSeconds
       ELSE /\ GatherComplete(task)
            /\ pc' = "SleepInterval"
            /\ sleepFor' = CheckInterval
            /\ UNCHANGED loopErr
    /\ UNCHANGED <<running, stop, taskObs, lastClock, toOpen, calcVars, po>>

\* asyncio.sleep(check_interval) ends
SleepIntervalDone ==
    /\ pc = "SleepInterval"
    /\ stop = "none"
    /\ pc' = "CheckClock"
    /\ sleepFor' = 0
    /\ UNCHANGED <<running, stop, taskObs, lastClock, loopErr, toOpen, calcVars,
                   po>>

\* asyncio.sleep(300) of the loop's except clause ends
ErrorSleepDone ==
    /\ pc = "ErrorSleep"
    /\ stop = "none"
    /\ pc' = "CheckClock"
    /\ sleepFor' = 0
    /\ UNCHANGED <<running, stop, taskObs, lastClock, loopErr, toOpen, calcVars,
                   po>>

\* ------------------------------------------------------- process_symbol
\* The event loop is free to start or resume a task
LoopIdle ==
    /\ running = "none"
    /\ stop = "none"
    /\ pc \notin {"CheckClock", "Exited"}

\* the task of s runs its first step and enters get_historical_data
TaskStart(s) ==
    /\ LoopIdle
    /\ task[s].pc = "ready"
    /\ task' = [task EXCEPT ![s].pc = "fetch"]
    /\ running' = s
    /\ UNCHANGED <<pc, stop, reqs, fails, empties, got, xing,
                   sig, calls, placeRet,
                   brokerErr, cycle, lastClock, loopErr, calcVars, sleepVars, po>>

\* get_historical_data returns None: process_symbol logs and awaits
\* asyncio.sleep(300), releasing the event loop
DataUnavailable(s) ==
    /\ got' = [got EXCEPT ![s] = "none"]
    /\ task' = [task EXCEPT ![s].pc = "defer", ![s].wait = DeferSeconds]
    /\ running' = "none"
    /\ UNCHANGED <<xing, sig>>

\* What get_historical_data makes of the frame the broker returned: None
\* when it is empty, else its last Limit rows sorted by index
FetchedFrame(bars) ==
    IF bars = <<>> THEN None
    ELSE Frame(SortIndex(TailRows(bars, Limit)))

\* A returned frame taken through get_historical_data and, when data comes
\* back, through calculate
ProcessedFrame(bars) ==
    LET data == FetchedFrame(bars)
    IN  [absent |-> data.absent,
         xing |-> IF data.absent THEN "na"
                  ELSE Crossing(CloseColumn(data.rows)),
         sig |-> IF data.absent THEN NoResult("na")
                 ELSE Calculate(data, ShortWindow, LongWindow)]

\* every way a request that returns a frame can turn out
BrokerOutcomes == {ProcessedFrame(bars) : bars \in BrokerBars}

\* get_historical_data returns data: calculate runs and process_symbol
\* branches on the signals, all without an await
SignalsFrom(s, o) ==
    LET r == o.sig
        next == IF r.ret = "IndexError" THEN ProcessSymbolExcept
                ELSE IF SideFor(r) # "none" THEN "latest"
                ELSE "done"
        side == SideFor(r)
    IN  /\ got' = [got EXCEPT ![s] = "data"]
        /\ xing' = [xing EXCEPT ![s] = o.xing]
        /\ sig' = [sig EXCEPT ![s] = r]
        /\ task' = [task EXCEPT ![s].pc = next, ![s].side = side]
        /\ running' = IF next = "latest" THEN s ELSE "none"

\* attempt += 1 and the blocking sleep before the next request
RetryAfterSleep(s) ==
    /\ task' = [task EXCEPT ![s].pc = "backoff", ![s].attempt = @ + 1]
    /\ UNCHANGED <<got, xing, sig, running>>

\* one pass of the while loop of get_historical_data: one get_crypto_bars
\* request and what follows it
GetBars(s) ==
    /\ pc # "Exited"
    /\ running = s
    /\ task[s].pc = "fetch"
    /\ reqs' = [reqs EXCEPT ![s] = @ + 1]
    /\ \E out \in {"bars", "api_error", "error"} :
         IF out = "bars"
         THEN /\ \E o \in BrokerOutcomes :
                   IF o.absent
                   THEN /\ empties' = [empties EXCEPT ![s] = @ + 1]
                        /\ IF OnEmptyResult(task[s].attempt) = "retry"
                           THEN RetryAfterSleep(s)
                           ELSE DataUnavailable(s)
                   ELSE SignalsFrom(s, o) /\ UNCHANGED empties
              /\ UNCHANGED <<fails, brokerErr>>
         ELSE /\ brokerErr' = [brokerErr EXCEPT ![s] = TRUE]
              /\ fails' = [fails EXCEPT ![s] = IF out = "api_error" THEN @ + 1 ELSE @]
              /\ IF OnFetchError(out, task[s].attempt) = "retry"
                 THEN RetryAfterSleep(s)
                 ELSE DataUnavailable(s)
              /\ UNCHANGED empties
    /\ UNCHANGED <<pc, stop, calls, placeRet, cycle, lastClock, loopErr,
                   calcVars, sleepVars, po>>

\* time.sleep(random.uniform(1, delay)) returns; the thread was held
BackoffDone(s) ==
    /\ pc # "Exited"
    /\ running = s
    /\ task[s].pc = "backoff"
    /\ task' = [task EXCEPT ![s].pc = "fetch"]
    /\ UNCHANGED <<pc, running, stop, reqs, fails, empties, got, xing,
                   sig, calls,
                   placeRet, brokerErr, cycle, lastClock, loopErr, calcVars, sleepVars, po>>

\* asyncio.sleep(300) of process_symbol ends and the task returns
DeferDone(s) ==
    /\ LoopIdle
    /\ task[s].pc = "defer"
    /\ task' = [task EXCEPT ![s].pc = "done"]
    /\ sig' = [sig EXCEPT ![s] = AfterDefer(@)]
    /\ UNCHANGED <<pc, running, stop, reqs, fails, empties, got, xing, calls,
                   placeRet, brokerErr, cycle, lastClock, loopErr, calcVars, sleepVars, po>>

\* place_order ends with result ret; "raise" reaches the except clause of
\* process_symbol
PlaceOrderEnds(s, ret) ==
    /\ placeRet' = [placeRet EXCEPT ![s] = ret]
    /\ task' = [task EXCEPT ![s].pc = IF ret = "raise" THEN ProcessSymbolExcept
                                       ELSE "done"]
    /\ running' = "none"

\* place_order: get_latest_trade
GetLatestTrade(s) ==
    /\ pc # "Exited"
    /\ running = s
    /\ task[s].pc = "latest"
    /\ \E out \in {"ok", "api_error", "error"} :
       /\ calls' = [calls EXCEPT ![s] =
                       Append(@, [op |-> "latest", side |-> "none", qty |-> 0,
                                  ok |-> (out = "ok")])]
       /\ brokerErr' = [brokerErr EXCEPT ![s] = @ \/ out # "ok"]
       /\
         IF AfterLatestTrade(out) = "submit"
         THEN /\ task' = [task EXCEPT ![s].pc = "submit"]
              /\ UNCHANGED <<running, placeRet>>
         ELSE PlaceOrderEnds(s, PlaceOrderExcept(out))
    /\ UNCHANGED <<pc, stop, reqs, fails, empties, got, xing,
                   sig, cycle, lastClock,
                   loopErr, calcVars, sleepVars, po>>

\* place_order: submit_order with the side and quantity process_symbol passed
SubmitOrder(s) ==
    /\ pc # "Exited"
    /\ running = s
    /\ task[s].pc = "submit"
    /\ \E out \in {"ok", "api_error", "error"} :
       /\ LET order == OrderRequest(s, OrderQty, task[s].side, Frac(0, 1))
          IN calls' = [calls EXCEPT ![s] =
                          Append(@, [op |-> "submit", side |-> order.side,
                                     qty |-> order.qty, ok |-> (out = "ok")])]
       /\
         IF out = "ok"
         THEN PlaceOrderEnds(s, "order") /\ UNCHANGED brokerErr
         ELSE /\ brokerErr' = [brokerErr EXCEPT ![s] = TRUE]
              /\ PlaceOrderEnds(s, PlaceOrderExcept(out))
    /\ UNCHANGED <<pc, stop, reqs, fails, empties, got, xing,
                   sig, cycle, lastClock,
                   loopErr, calcVars, sleepVars, po>>

\* ------------------------------------------------------------ stop signal
\* Tasks that have not finished when the process goes down
Abandon(t) ==
    [s \in Symbols |->
        IF t[s].pc \in {"idle", "done", "raised"} THEN t[s]
        ELSE [t[s] EXCEPT !.pc = "cancelled"]]

\* SIGINT arrives.  Either KeyboardInterrupt is raised where the thread is
\* (caught by run() only while run() itself executes; anywhere else it
\* leaves the event loop), or the runner requests cancellation of the main
\* task, which takes effect at its next suspension.
Interrupt ==
    /\ stop = "none"
    /\ pc # "Exited"
    /\ \E mode \in {"raise", "cancel"} :
         IF mode = "raise"
         THEN /\ stop' = "interrupted"
              /\ pc' = "Exited"
              /\ task' = Abandon(task)
              /\ running' = "none"
         ELSE /\ stop' = "pending"
              /\ UNCHANGED <<pc, task, running>>
    /\ UNCHANGED <<reqs, fails, empties, got, xing,
                   sig, calls, placeRet, brokerErr,
                   cycle, lastClock, loopErr, calcVars, sleepVars, po>>

\* the requested cancellation reaches the suspended main task: run() ends
\* with CancelledError and the unfinished tasks are cancelled
CancelDelivered ==
    /\ stop = "pending"
    /\ running = "none"
    /\ pc \notin {"CheckClock", "Exited"}
    /\ stop' = "cancelled"
    /\ pc' = "Exited"
    /\ task' = Abandon(task)
    /\ UNCHANGED <<running, reqs, fails, empties, got, xing,
                   sig, calls, placeRet,
                   brokerErr, cycle, lastClock, loopErr, calcVars, sleepVars, po>>

Run ==
    \/ CheckClock
    \/ SleepUntilOpenDone
    \/ GatherReturns
    \/ SleepIntervalDone
    \/ ErrorSleepDone
    \/ \E s \in Symbols : TaskStart(s)
    \/ \E s \in Symbols : GetBars(s)
    \/ \E s \in Symbols : BackoffDone(s)
    \/ \E s \in Symbols : DeferDone(s)
    \/ \E s \in Symbols : GetLatestTrade(s)
    \/ \E s \in Symbols : SubmitOrder(s)
    \/ CancelDelivered

Next == Run \/ Interrupt

Spec == Init /\ [][Next]_vars

\* Timers fire, blocking calls return and runnable tasks are run; the stop
\* signal may never come.
FairSpec == Spec /\ WF_vars(Run)

\* ------------------------------------------ calculate as a function alone
DataFrames == {None} \cup {Frame(BarsOf(c)) : c \in ClosesUpTo(CalcMaxLen)}

InitCalc ==
    /\ InitRun
    /\ calcIn \in DataFrames
    /\ calcOut = NoResult("unset")
    /\ po = PoIdle

ApplyCalculate ==
    /\ calcOut.ret = "unset"
    /\ calcOut' = Calculate(calcIn, ShortWindow, LongWindow)
    /\ UNCHANGED <<calcIn, runVars, po>>

NextCalc == ApplyCalculate

SpecCalc == InitCalc /\ [][NextCalc]_vars

\* ------------------------------------------------ place_order on its own
InitOrder ==
    /\ InitRun
    /\ calcIn = None
    /\ calcOut = NoResult("unset")
    /\ \E symbol \in Symbols, qty \in 1..MaxQty, side \in {"buy", "sell"},
          fee_rate \in FeeRates :
          po = [PoIdle EXCEPT !.pc = "latest", !.symbol = symbol, !.qty = qty,
                              !.side = side, !.fee_rate = fee_rate]

\* latest_trade = self.api.get_latest_trade(symbol), then the fee estimate
PoLatestTrade ==
    /\ po.pc = "latest"
    /\ \E out \in {"ok", "api_error", "error"}, price \in TradePrices :
          IF AfterLatestTrade(out) = "submit"
          THEN po' = [po EXCEPT !.pc = "submit", !.price = price,
                        !.fee = EstimatedFee(po.qty, price, po.fee_rate)]
          ELSE po' = [po EXCEPT !.pc = "done", !.ret = PlaceOrderExcept(out)]
    /\ UNCHANGED <<runVars, calcVars>>

\* order = self.api.submit_order(...); return order
PoSubmitOrder ==
    /\ po.pc = "submit"
    /\ \E out \in {"ok", "api_error", "error"} :
          po' = [po EXCEPT
                   !.pc = "done",
                   !.order = OrderRequest(po.symbol, po.qty, po.side, po.fee),
                   !.ret = IF out = "ok" THEN "order" ELSE PlaceOrderExcept(out)]
    /\ UNCHANGED <<runVars, calcVars>>

NextOrder == PoLatestTrade \/ PoSubmitOrder

SpecOrder == InitOrder /\ [][NextOrder]_vars

\* ================================================================ claims
Submits(s) == SelectSeq(calls[s], LAMBDA c : c.op = "submit")

AllDone == \A s \in Symbols : task[s].pc = "done"

\* a get_crypto_bars, get_latest_trade or submit_order call is issued in
\* this step
BrokerCallIssued ==
    \E s \in Symbols : \/ reqs'[s] = reqs[s] + 1
                       \/ Len(calls'[s]) = Len(calls[s]) + 1

\* C1: between a clock query that reported the market closed and the next
\* clock query, no getBars, getLatestTrade or submitOrder call is issued.
C1_NoBrokerCallWhileClosed ==
    [][lastClock = "closed" => ~BrokerCallIssued]_vars

\* C2: one get_historical_data call issues at most Retries requests; data
\* comes back after exactly (API failures + 1) requests, and Retries API
\* failures end the call with None after exactly Retries requests.
C2_BoundedRetries ==
    \A s \in Symbols :
        /\ reqs[s] <= Retries
        /\ got[s] = "data" => (reqs[s] = fails[s] + 1 /\ fails[s] < Retries)
        /\ fails[s] = Retries => (got[s] = "none" /\ reqs[s] = Retries)
        /\ task[s].pc # "raised"

C2_Witness ==
    \E s \in Symbols :
        got[s] = "data" /\ fails[s] = Retries - 1 /\ reqs[s] = Retries

\* C3: on a series of at least long_window + 1 rows, calculate returns
\* (true, false) exactly on an upward cross of the trailing means between
\* the last two samples, (false, true) exactly on a downward cross, and
\* (false, false) otherwise.
C3_CrossoverSignals ==
    (calcOut.ret # "unset" /\ ~calcIn.absent
        /\ Len(calcIn.rows) >= LongWindow + 1)
    => LET x == Crossing(CloseColumn(calcIn.rows))
       IN  /\ x = "up" => calcOut = Signals(TRUE, FALSE)
           /\ x = "down" => calcOut = Signals(FALSE, TRUE)
           /\ x = "flat" => calcOut = Signals(FALSE, FALSE)

C3_Witness ==
    /\ ~calcIn.absent
    /\ Len(calcIn.rows) >= LongWindow + 1
    /\ Crossing(CloseColumn(calcIn.rows)) = "up"
    /\ calcOut = Signals(TRUE, FALSE)

\* C4: calculate never returns buy and sell both true, whatever the input.
C4_NeverBothSignals == ~(calcOut.buy /\ calcOut.sell)

C4_Witness ==
    /\ calcOut.ret = "signals"
    /\ calcOut.sell
    /\ ~calcOut.buy

\* C5: for an absent series or one shorter than long_window, calculate
\* returns (false, false) and raises nothing.
C5_InsufficientData ==
    (calcOut.ret # "unset"
        /\ (calcIn.absent \/ Len(calcIn.rows) < LongWindow))
    => calcOut = Signals(FALSE, FALSE)

C5_Witness ==
    /\ calcOut = Signals(FALSE, FALSE)
    /\ ~calcIn.absent
    /\ Len(calcIn.rows) = LongWindow - 1

\* C6 as first stated: a finished task whose data showed an upward cross
\* attempted exactly one submission, a buy of quantity 1; a downward cross,
\* exactly one sell of quantity 1.
C6_ExactlyOneSubmission ==
    \A s \in Symbols :
        (task[s].pc = "done" /\ got[s] = "data")
        => /\ xing[s] = "up" =>
                /\ Len(Submits(s)) = 1
                /\ Submits(s)[1].side = "buy" /\ Submits(s)[1].qty = 1
           /\ xing[s] = "down" =>
                /\ Len(Submits(s)) = 1
                /\ Submits(s)[1].side = "sell" /\ Submits(s)[1].qty = 1

OrderedOnce(s, side) ==
    /\ Len(Submits(s)) <= 1
    /\ \A i \in 1..Len(Submits(s)) :
          Submits(s)[i].side = side /\ Submits(s)[i].qty = 1
    /\ task[s].pc = "done" =>
          /\ Len(calls[s]) >= 1
          /\ calls[s][1].op = "latest"
          /\ Len(Submits(s)) = IF calls[s][1].ok THEN 1 ELSE 0

\* C6 (amended): on an upward cross the task makes one place_order call
\* with side buy and quantity 1: it reads the latest trade once and, when
\* that read succeeds, attempts exactly one submission (buy, 1); when the
\* read fails it attempts none.  No sell is ever submitted.  Symmetrically
\* for a downward cross and sell.
C6_OneOrderAfterPriceRead ==
    \A s \in Symbols :
        got[s] = "data"
        => /\ xing[s] = "up" => OrderedOnce(s, "buy")
           /\ xing[s] = "down" => OrderedOnce(s, "sell")

C6_Witness ==
    \E s \in Symbols :
        /\ task[s].pc = "done"
        /\ xing[s] = "up"
        /\ Len(Submits(s)) = 1
        /\ Submits(s)[1].side = "buy"

\* C7: a broker failure inside one task never surfaces at the loop level and
\* never keeps the other tasks from finishing: the loop leaves the gather
\* only with every task done, and every gather is followed by all tasks
\* done (unless the process is stopped from outside).
C7_FailureIsolation ==
    /\ [](loopErr # "task" /\ (pc = "SleepInterval" => AllDone))
    /\ [](pc = "Gather" => <>(AllDone \/ stop # "none"))

C7_Witness ==
    /\ pc = "SleepInterval"
    /\ \E s, t \in Symbols : s # t /\ brokerErr[s] /\ placeRet[t] = "order"

\* C8: tasks of a new cycle are created only when every task of the cycle
\* before has completed.
C8_CycleBarrier ==
    [][(\E s \in Symbols : task'[s].pc = "ready" /\ task[s].pc # "ready")
        => \A s \in Symbols : task[s].pc \in {"idle", "done"}]_vars

C8_Witness ==
    /\ cycle = 2
    /\ loopErr = "clock"
    /\ \E s, t \in Symbols : task[s].pc = "fetch" /\ task[t].pc = "ready"

\* C9: a loop-level error never ends the loop (only the stop signal does),
\* the error sleep is followed by the clock check, and the loop is at the
\* clock check infinitely often unless it is stopped from outside.
C9_LoopRecovers ==
    /\ [](pc = "Exited" => stop \in {"interrupted", "cancelled"})
    /\ [](pc = "ErrorSleep" => <>(pc = "CheckClock" \/ stop # "none"))
    /\ (<>(stop # "none") \/ []<>(pc = "CheckClock"))

C9_Witness ==
    /\ pc = "CheckClock"
    /\ lastClock = "error"
    /\ loopErr = "clock"
    /\ stop = "none"

\* C10: place_order never raises: a failed get_latest_trade or submit_order
\* makes it return None, the task ends normally, and the loop reaches its
\* error handler only through the clock query.
C10_PlaceOrderNeverRaises ==
    /\ \A s \in Symbols :
          /\ placeRet[s] # "raise"
          /\ (\E i \in 1..Len(calls[s]) : ~calls[s][i].ok)
                => (placeRet[s] = "none" /\ task[s].pc = "done")
    /\ pc = "ErrorSleep" => loopErr = "clock"

C10_Witness ==
    /\ pc = "SleepInterval"
    /\ \E s \in Symbols :
          /\ placeRet[s] = "none"
          /\ Len(Submits(s)) = 1
          /\ ~Submits(s)[1].ok

\* C12: the loop ends only on the external stop signal, and then only with
\* every task of the cycle in flight completed: none is left unfinished.
C12_StopWaitsForCycle ==
    pc = "Exited"
    => /\ stop \in {"interrupted", "cancelled"}
       /\ \A s \in Symbols : task[s].pc \in {"idle", "done"}

\* C16: while the task of one symbol is in the retry backoff of the data
\* fetch, a task of another symbol that is ready to start or to resume can
\* take its step.
C16_BackoffLetsOthersRun ==
    \A s, t \in Symbols :
        (s # t /\ task[s].pc = "backoff" /\ stop = "none"
            /\ task[t].pc \in {"ready", "defer"})
        => ENABLED (TaskStart(t) \/ DeferDone(t))

\* C18: on a frame of exactly long_window rows calculate reports no signal,
\* whatever the prices.
C18_ExactWindowNoSignal ==
    (calcOut.ret # "unset" /\ ~calcIn.absent
        /\ Len(calcIn.rows) = LongWindow)
    => calcOut = Signals(FALSE, FALSE)

\* C13: an empty result, on the first attempt or after APIErrors, ends the
\* get_historical_data call at once with None: it is the last request of
\* the call and no backoff follows it.
C13_EmptyEndsCall ==
    \A s \in Symbols :
        empties[s] >= 1
        => /\ empties[s] = 1
           /\ reqs[s] = fails[s] + 1
           /\ got[s] = "none"
           /\ task[s].pc \in {"defer", "done", "cancelled"}

C13_Witness ==
    \E s \in Symbols :
        empties[s] = 1 /\ fails[s] >= 1 /\ task[s].pc = "defer"

\* C15: every failed attempt, whether the broker call raised an APIError or
\* another (protocol or transport) exception, is followed by another attempt
\* while fewer than Retries were made: a call that returned None without an
\* empty result made all Retries attempts.
C15_EveryErrorRetried ==
    \A s \in Symbols :
        (got[s] = "none" /\ empties[s] = 0) => reqs[s] = Retries

\* C17: a task whose fetch returned None asks for a 300-second wait and
\* ends with no signal computed and no get_latest_trade or submit_order
\* call; the inter-cycle sleep never runs while such a wait is pending.
C17_DeferThenReturn ==
    /\ \A s \in Symbols :
          got[s] = "none"
          => /\ task[s].wait = DeferSeconds
             /\ task[s].pc \in {"defer", "done", "cancelled"}
             /\ sig[s].ret = "na"
             /\ calls[s] = <<>>
    /\ pc = "SleepInterval" => \A s \in Symbols : task[s].pc # "defer"

C17_Witness ==
    /\ pc = "SleepInterval"
    /\ \E s \in Symbols : got[s] = "none" /\ task[s].pc = "done"

\* C19: within place_order submit_order is called only right after a
\* get_latest_trade that returned, and get_latest_trade is never called
\* after submit_order: a failed price read leaves no submission.
C19_SubmitAfterPriceRead ==
    \A s \in Symbols :
        \A i \in 1..Len(calls[s]) :
            /\ calls[s][i].op = "latest" => i = 1
            /\ calls[s][i].op = "submit"
               => (i = 2 /\ calls[s][1].op = "latest" /\ calls[s][1].ok)

C19_Witness ==
    \E s \in Symbols :
        /\ task[s].pc = "done"
        /\ Len(calls[s]) = 1
        /\ calls[s][1].op = "latest"
        /\ ~calls[s][1].ok

\* C20: in a cycle exactly one task is created for each tracked symbol and
\* at most one submit_order call is made for it.
C20_OneTaskOneOrder ==
    \A s \in Symbols :
        task[s].pc # "idle" => (task[s].n = 1 /\ Len(Submits(s)) <= 1)

C20_Witness ==
    /\ pc = "SleepInterval"
    /\ \A s \in Symbols : task[s].n = 1 /\ Len(Submits(s)) = 1

\* C11: while the loop sleeps because the clock reported the market closed,
\* the sleep lasts min(check_interval, time to the next open), whatever the
\* time to the next open, a day or more included.
C11_SleepIsMinOfIntervalAndTimeToOpen ==
    pc = "SleepUntilOpen" => sleepFor = Min(CheckInterval, toOpen)

\* C14: the fee estimate of place_order is qty * price * fee_rate / 100, and
\* the order handed to submit_order carries exactly the symbol, quantity and
\* side asked for, whatever the fee.
C14_FeeIsInformational ==
    /\ po.pc \in {"submit", "done"} /\ po.price > 0
       => /\ po.fee.den > 0
          /\ po.fee.num * (100 * po.fee_rate.den)
                = po.qty * po.price * po.fee_rate.num * po.fee.den
    /\ po.order # NoOrder
       => /\ po.order.symbol = po.symbol
          /\ po.order.qty = po.qty
          /\ po.order.side = po.side

C14_Witness ==
    /\ po.pc = "done"
    /\ po.ret = "order"
    /\ po.qty = 1 /\ po.price = 100 /\ po.fee_rate = Frac(25, 100)
    /\ FracEq(po.fee, Frac(25, 100))
    /\ po.order = [symbol |-> po.symbol, qty |-> 1, side |-> po.side,
                   type |-> "market", time_in_force |-> "gtc"]

====
